---- MODULE Spec2Model ----
(***************************************************************************)
(* Model of app.py: the knee osteoarthritis grading service.               *)
(*                                                                         *)
(* One process imports the module: MODEL = None, then the startup block    *)
(* runs download_weights_if_not_present() and load_model_from_files()      *)
(* inside try/except, and afterwards the Flask routes index and predict    *)
(* are served.  The weights file lives on the local filesystem and         *)
(* outlives the process; a restart starts a new process on the same disk.  *)
(***************************************************************************)
EXTENDS Integers, Sequences, FiniteSets, TLC

\* ---- bounds of the model ------------------------------------------------
MaxRestarts == 2
MaxRequests == 2

\* ---- configuration (app.py, CONFIGURATION block) --------------------------
NumGrades == 5

KL_GRADE_MAP ==
    [g \in 0..(NumGrades - 1) |->
        CASE g = 0 -> "Grade 0: Normal (No Osteoarthritis)"
          [] g = 1 -> "Grade 1: Doubtful (Possible Osteophyte Lip)"
          [] g = 2 -> "Grade 2: Minimal (Definite Osteophytes, Possible Joint Space Narrowing)"
          [] g = 3 -> "Grade 3: Moderate (Moderate Osteophytes, Definite Joint Space Narrowing)"
          [] g = 4 -> "Grade 4: Severe (Large Osteophytes, Severe Joint Space Narrowing, Sclerosis)"]

VARIABLES
    pc,                   \* position of the process: module_init, startup_download,
                          \* startup_load, serving
    MODEL,                \* the module global: "None", "architecture" (model_from_json
                          \* result, weights not attached), "loaded" (weights attached)
    MODEL_WEIGHTS_PATH,   \* the weights file on disk: "absent", "partial", "complete"
    ARCHITECTURE_FILE,    \* the architecture file on disk: "valid" or "corrupt"
    WEIGHTS_DOWNLOAD_URL, \* the environment variable of this process: "" when unset
    startupFailed,        \* the except block of the startup sequence was entered
    existsAtStartup,      \* what os.path.exists saw in this process: "unchecked",
                          \* or the state of the weights file at that moment
    envRead,              \* os.environ.get('WEIGHTS_DOWNLOAD_URL') was evaluated
    networkGet,           \* requests.get was called in this process
    fileOpenedForWrite,   \* open(MODEL_WEIGHTS_PATH, 'wb') was called in this process
    loadWeightsArg,       \* state of the file MODEL.load_weights was called on,
                          \* "none" while it was not called in this process
    loadRuns,             \* number of times the startup sequence was entered
    publishes,            \* number of assignments to MODEL by load_model_from_files
    restarts,             \* number of process restarts so far
    served,               \* number of requests handled by this process
    lastHandler,          \* "none", "index" or "predict"
    lastReq,              \* the request the last predict call handled
    lastOut,              \* what the libraries did for that request
    invoked,              \* MODEL.predict was called for the last request
    response              \* the response of the last handler

vars == <<pc, MODEL, MODEL_WEIGHTS_PATH, ARCHITECTURE_FILE, WEIGHTS_DOWNLOAD_URL,
          startupFailed, existsAtStartup, envRead, networkGet, fileOpenedForWrite,
          loadWeightsArg, loadRuns, publishes, restarts, served, lastHandler,
          lastReq, lastOut, invoked, response>>

disk == <<MODEL_WEIGHTS_PATH, ARCHITECTURE_FILE>>
requestVars == <<served, lastHandler, lastReq, lastOut, invoked, response>>
startupTrace == <<existsAtStartup, envRead, networkGet, fileOpenedForWrite,
                  loadWeightsArg, loadRuns, publishes>>

\* ---- requests and library outcomes ---------------------------------------
NoRequest == [hasFile |-> FALSE, filename |-> "", content |-> "none"]

Requests ==
    {NoRequest} \cup
    [hasFile : {TRUE}, filename : {"", "knee.jpg"},
     content : {"empty", "garbage", "image"}]

\* Image.open(...).convert('RGB') succeeds only on image bytes
Decodable(content) == content = "image"

\* probability vectors the network can return, in percent
OneHot(k) == [i \in 1..NumGrades |-> IF i = k + 1 THEN 60 ELSE 10]
ProbVectors == {OneHot(k) : k \in 0..(NumGrades - 1)} \cup
               {[i \in 1..NumGrades |-> 20], <<10, 40, 40, 5, 5>>}

NoOutcome == [raises |-> FALSE, probs |-> <<>>]
InferenceOutcomes ==
    {[raises |-> TRUE, probs |-> <<>>]} \cup
    [raises : {FALSE}, probs : ProbVectors]

NoResponse == [status |-> 0]

\* ---- numpy / flask helpers used by predict --------------------------------
\* np.argmax: the index (from 0) of the first maximal entry, a numpy.int64 scalar
np_argmax(v) ==
    LET best == CHOOSE i \in DOMAIN v :
                    /\ \A j \in DOMAIN v : v[j] <= v[i]
                    /\ \A j \in DOMAIN v : j < i => v[j] < v[i]
    IN  [type |-> "numpy.int64", val |-> best - 1]

\* ndarray.tolist(): a Python list of Python floats
tolist(v) == [type |-> "list", val |-> v]

\* KL_GRADE_MAP.get(predicted_class, "Unknown Grade"): numpy.int64 hashes and
\* compares like the int of the same value
grade_text(c) ==
    [type |-> "str",
     val  |-> IF c.val \in DOMAIN KL_GRADE_MAP THEN KL_GRADE_MAP[c.val]
              ELSE "Unknown Grade"]

\* what flask's JSON provider encodes: Python's own types; a numpy scalar that is
\* no subclass of int or float makes json.dumps raise TypeError
JsonSerializable(x) == x.type \in {"int", "float", "str", "list"}

GenericError == "An unexpected error occurred during prediction."

ErrorResponse(code, msg) == [status |-> code, error |-> msg]

\* a handler that answers with the exception's own text
predict_except_leaky ==
    ErrorResponse(500, "Prediction error: cannot identify image file")

\* the except branch of predict (lines 169-171)
predict_except == ErrorResponse(500, GenericError)

\* jsonify({...}) of the result, inside the try block (lines 163-167)
jsonify_result(c, text, probs) ==
    IF JsonSerializable(c) /\ JsonSerializable(text) /\ JsonSerializable(probs)
    THEN [status |-> 200, grade |-> c.val, description |-> text.val,
          probabilities |-> probs.val]
    ELSE predict_except

\* MODEL.predict is reached: the model is set, the file field is there with a
\* filename, and the bytes decode
ReachesInference(model, req) ==
    /\ model # "None"
    /\ req.hasFile
    /\ req.filename # ""
    /\ Decodable(req.content)

\* a handler that looks the file field up inside the try block, without the
\* membership test of line 136
predict_response_unchecked(model, req, out) ==
    IF model = "None"
    THEN ErrorResponse(503, "Model not loaded or failed to initialize.")
    ELSE IF ~req.hasFile
    THEN predict_except
    ELSE IF req.filename = ""
    THEN ErrorResponse(400, "No selected file")
    ELSE IF ~Decodable(req.content) \/ out.raises
    THEN predict_except
    ELSE LET predicted_class == np_argmax(out.probs)
         IN  jsonify_result(predicted_class, grade_text(predicted_class),
                            tolist(out.probs))

\* the response of predict() for request req, given what inference does (out)
predict_response(model, req, out) ==
    IF model = "None"
    THEN ErrorResponse(503, "Model not loaded or failed to initialize.")
    ELSE IF ~req.hasFile
    THEN ErrorResponse(400, "No file part in the request")
    ELSE IF req.filename = ""
    THEN ErrorResponse(400, "No selected file")
    ELSE IF ~Decodable(req.content)
    THEN predict_except
    ELSE IF out.raises
    THEN predict_except
    ELSE LET predicted_class == np_argmax(out.probs)
         IN  jsonify_result(predicted_class, grade_text(predicted_class),
                            tolist(out.probs))

\* ---- the process ------------------------------------------------------------
Init ==
    /\ pc = "module_init"
    /\ MODEL = "None"
    /\ MODEL_WEIGHTS_PATH \in {"absent", "complete"}
    /\ ARCHITECTURE_FILE \in {"valid", "corrupt"}
    /\ WEIGHTS_DOWNLOAD_URL \in {"", "https://weights"}
    /\ startupFailed = FALSE
    /\ existsAtStartup = "unchecked"
    /\ envRead = FALSE
    /\ networkGet = FALSE
    /\ fileOpenedForWrite = FALSE
    /\ loadWeightsArg = "none"
    /\ loadRuns = 0
    /\ publishes = 0
    /\ restarts = 0
    /\ served = 0
    /\ lastHandler = "none"
    /\ lastReq = NoRequest
    /\ lastOut = NoOutcome
    /\ invoked = FALSE
    /\ response = NoResponse

\* lines 37-41: MODEL = None, logging, app = Flask(__name__); then the try block
\* of the startup sequence is entered
module_init ==
    /\ pc = "module_init"
    /\ pc' = "startup_download"
    /\ MODEL' = "None"
    /\ loadRuns' = loadRuns + 1
    /\ UNCHANGED <<disk, WEIGHTS_DOWNLOAD_URL, startupFailed, existsAtStartup,
                   envRead, networkGet, fileOpenedForWrite, loadWeightsArg,
                   publishes, restarts, requestVars>>

\* a presence test that also wants the file to be whole
os_path_exists_whole(f) == f = "complete"

\* os.path.exists(MODEL_WEIGHTS_PATH)
os_path_exists(f) == f # "absent"

\* a download that never tests the variable
url_configured_untested(url) == TRUE

\* `not weights_url` is false
url_configured(url) == url # ""

\* the except block of the startup sequence (lines 109-114): log and pass, the
\* module goes on to define the routes and the process serves
startup_except ==
    /\ startupFailed' = TRUE
    /\ pc' = "serving"

\* download_weights_if_not_present, lines 78-80: the file is there
download_found ==
    /\ pc = "startup_download"
    /\ os_path_exists(MODEL_WEIGHTS_PATH)
    /\ existsAtStartup' = MODEL_WEIGHTS_PATH
    /\ pc' = "startup_load"
    /\ UNCHANGED <<MODEL, disk, WEIGHTS_DOWNLOAD_URL, startupFailed, envRead,
                   networkGet, fileOpenedForWrite, loadWeightsArg, loadRuns,
                   publishes, restarts, requestVars>>

\* lines 82-86: the file is missing and the variable is unset
download_no_url ==
    /\ pc = "startup_download"
    /\ ~os_path_exists(MODEL_WEIGHTS_PATH)
    /\ existsAtStartup' = MODEL_WEIGHTS_PATH
    /\ envRead' = TRUE
    /\ ~url_configured(WEIGHTS_DOWNLOAD_URL)
    /\ startup_except
    /\ UNCHANGED <<MODEL, disk, WEIGHTS_DOWNLOAD_URL, networkGet,
                   fileOpenedForWrite, loadWeightsArg, loadRuns, publishes,
                   restarts, requestVars>>

\* lines 88-102: the download. outcome is what the network and the disk do:
\*   "ok"            every chunk is written
\*   "request_error" requests.get or raise_for_status raises, nothing is opened
\*   "broken"        iter_content or f.write raises after open(..., 'wb')
download_fetch(outcome) ==
    /\ pc = "startup_download"
    /\ ~os_path_exists(MODEL_WEIGHTS_PATH)
    /\ existsAtStartup' = MODEL_WEIGHTS_PATH
    /\ envRead' = TRUE
    /\ url_configured(WEIGHTS_DOWNLOAD_URL)
    /\ networkGet' = TRUE
    /\ CASE outcome = "ok" ->
                /\ fileOpenedForWrite' = TRUE
                /\ MODEL_WEIGHTS_PATH' = "complete"
                /\ pc' = "startup_load"
                /\ UNCHANGED startupFailed
         [] outcome = "request_error" ->
                /\ UNCHANGED <<fileOpenedForWrite, MODEL_WEIGHTS_PATH>>
                /\ startup_except
         [] outcome = "broken" ->
                /\ fileOpenedForWrite' = TRUE
                /\ MODEL_WEIGHTS_PATH' = "partial"
                /\ startup_except
    /\ UNCHANGED <<MODEL, ARCHITECTURE_FILE, WEIGHTS_DOWNLOAD_URL, loadWeightsArg,
                   loadRuns, publishes, restarts, requestVars>>

download_weights_if_not_present ==
    \/ download_found
    \/ download_no_url
    \/ \E outcome \in {"ok", "request_error", "broken"} : download_fetch(outcome)

\* model_from_json(open(ARCHITECTURE_FILE).read(), ...) returns without raising
architecture_loads(f) == f = "valid"

\* MODEL.load_weights(path) returns without raising: a truncated HDF5 file never
\* loads; a complete one loads unless its shapes do not match (shapes_match)
weights_load(f, shapes_match) == f = "complete" /\ shapes_match

\* load_model_from_files, lines 49-61: reading or deserializing the architecture
\* raises before MODEL is assigned
load_architecture_fails ==
    /\ pc = "startup_load"
    /\ ~architecture_loads(ARCHITECTURE_FILE)
    /\ startup_except
    /\ UNCHANGED <<MODEL, disk, WEIGHTS_DOWNLOAD_URL, startupTrace, restarts,
                   requestVars>>

\* lines 56 and 66-73: MODEL is assigned the deserialized architecture, then
\* MODEL.load_weights raises
load_weights_fails(shapes_match) ==
    /\ pc = "startup_load"
    /\ architecture_loads(ARCHITECTURE_FILE)
    /\ MODEL' = "architecture"
    /\ publishes' = publishes + 1
    /\ loadWeightsArg' = MODEL_WEIGHTS_PATH
    /\ ~weights_load(MODEL_WEIGHTS_PATH, shapes_match)
    /\ startup_except
    /\ UNCHANGED <<disk, WEIGHTS_DOWNLOAD_URL, existsAtStartup, envRead, networkGet,
                   fileOpenedForWrite, loadRuns, restarts, requestVars>>

\* lines 56 and 66-70: MODEL is assigned and the weights are attached to it
load_ok(shapes_match) ==
    /\ pc = "startup_load"
    /\ architecture_loads(ARCHITECTURE_FILE)
    /\ publishes' = publishes + 1
    /\ loadWeightsArg' = MODEL_WEIGHTS_PATH
    /\ weights_load(MODEL_WEIGHTS_PATH, shapes_match)
    /\ MODEL' = "loaded"
    /\ pc' = "serving"
    /\ UNCHANGED <<disk, WEIGHTS_DOWNLOAD_URL, startupFailed, existsAtStartup,
                   envRead, networkGet, fileOpenedForWrite, loadRuns, restarts,
                   requestVars>>

load_model_from_files ==
    \/ load_architecture_fails
    \/ \E shapes_match \in BOOLEAN : load_weights_fails(shapes_match)
    \/ \E shapes_match \in BOOLEAN : load_ok(shapes_match)

\* ---- the routes ---------------------------------------------------------------
\* GET /: render_template('index.html')
index ==
    /\ pc = "serving"
    /\ served < MaxRequests
    /\ served' = served + 1
    /\ lastHandler' = "index"
    /\ lastReq' = NoRequest
    /\ lastOut' = NoOutcome
    /\ invoked' = FALSE
    /\ response' = [status |-> 200, page |-> "index.html"]
    /\ UNCHANGED <<pc, MODEL, disk, WEIGHTS_DOWNLOAD_URL, startupFailed,
                   startupTrace, restarts>>

\* POST /predict with request req; out is what MODEL.predict does if it is called
predict(req, out) ==
    /\ pc = "serving"
    /\ served < MaxRequests
    /\ served' = served + 1
    /\ lastHandler' = "predict"
    /\ lastReq' = req
    /\ invoked' = ReachesInference(MODEL, req)
    /\ lastOut' = IF ReachesInference(MODEL, req) THEN out ELSE NoOutcome
    /\ response' = predict_response(MODEL, req, out)
    /\ UNCHANGED <<pc, MODEL, disk, WEIGHTS_DOWNLOAD_URL, startupFailed, startupTrace,
                   restarts>>

\* the process ends and a new one is started on the same disk (a redeploy, or the
\* process manager restarting the worker); the environment may differ
restart ==
    /\ pc = "serving"
    /\ restarts < MaxRestarts
    /\ restarts' = restarts + 1
    /\ pc' = "module_init"
    /\ MODEL' = "None"
    /\ WEIGHTS_DOWNLOAD_URL' \in {"", "https://weights"}
    /\ startupFailed' = FALSE
    /\ existsAtStartup' = "unchecked"
    /\ envRead' = FALSE
    /\ networkGet' = FALSE
    /\ fileOpenedForWrite' = FALSE
    /\ loadWeightsArg' = "none"
    /\ loadRuns' = 0
    /\ publishes' = 0
    /\ served' = 0
    /\ lastHandler' = "none"
    /\ lastReq' = NoRequest
    /\ lastOut' = NoOutcome
    /\ invoked' = FALSE
    /\ response' = NoResponse
    /\ UNCHANGED disk

Next ==
    \/ module_init
    \/ download_weights_if_not_present
    \/ load_model_from_files
    \/ index
    \/ \E req \in Requests, out \in InferenceOutcomes : predict(req, out)
    \/ restart

Spec == Init /\ [][Next]_vars

\* ---- the load state of section 4.1, read off the process ------------------------
UNINITIALIZED == pc = "module_init"
LOADING == pc \in {"startup_download", "startup_load"}
READY == pc = "serving" /\ ~startupFailed
FAILED == pc = "serving" /\ startupFailed

TypeOK ==
    /\ pc \in {"module_init", "startup_download", "startup_load", "serving"}
    /\ MODEL \in {"None", "architecture", "loaded"}
    /\ MODEL_WEIGHTS_PATH \in {"absent", "partial", "complete"}
    /\ served \in 0..MaxRequests
    /\ restarts \in 0..MaxRestarts

\* ---- the claims ---------------------------------------------------------------

\* a predict call that got past the model, file-field and filename checks
PastValidation ==
    /\ lastHandler = "predict"
    /\ MODEL # "None"
    /\ lastReq.hasFile
    /\ lastReq.filename # ""

\* C1: after a load failure at startup every POST /predict is answered with 503
\* and MODEL.predict is never invoked.
C1_FailedStartupRejectsEveryPredict ==
    (startupFailed /\ lastHandler = "predict")
        => (response.status = 503 /\ ~invoked)

C3_PresentWeightsSkipDownload ==
    [][(pc = "startup_download" /\ MODEL_WEIGHTS_PATH # "absent")
          => /\ networkGet' = networkGet
             /\ envRead' = envRead
             /\ fileOpenedForWrite' = fileOpenedForWrite
             /\ MODEL_WEIGHTS_PATH' = MODEL_WEIGHTS_PATH
             /\ pc' = "startup_load"]_vars

C3_Witness ==
    /\ pc = "startup_load"
    /\ existsAtStartup = "complete"
    /\ ~networkGet
    /\ ~envRead
    /\ ~fileOpenedForWrite

\* C4: a transfer that fails partway fails the startup, and the incomplete file
\* is never treated as valid: load_weights is not called in that run, and no
\* later startup takes the partial file for a weights file that is present.
C4_PartialFileNeverValid ==
    /\ (networkGet /\ MODEL_WEIGHTS_PATH = "partial")
          => (pc = "serving" /\ startupFailed /\ loadWeightsArg = "none")
    /\ pc = "startup_load" => MODEL_WEIGHTS_PATH # "partial"
    /\ loadWeightsArg # "partial"

\* C5: when a step of the startup sequence fails, the application exits and no
\* route handler (index or predict) ever runs in that process.
C5_FailedStartupServesNothing ==
    startupFailed => lastHandler = "none"

\* C6 as stated: in every startup with WEIGHTS_DOWNLOAD_URL unset the startup
\* fails and the load state never becomes READY.
C6_UrlAlwaysRequired ==
    WEIGHTS_DOWNLOAD_URL = "" => (~READY /\ MODEL # "loaded")

\* C6 amended: in every startup with WEIGHTS_DOWNLOAD_URL unset and no weights
\* file on disk, the startup fails without a network request, the load state
\* never becomes READY and MODEL stays None.
C6_UrlRequiredWhenWeightsAbsent ==
    (WEIGHTS_DOWNLOAD_URL = "" /\ existsAtStartup = "absent")
        => /\ FAILED
           /\ MODEL = "None"
           /\ ~networkGet
           /\ loadWeightsArg = "none"

C6_Witness ==
    /\ WEIGHTS_DOWNLOAD_URL = ""
    /\ existsAtStartup = "absent"
    /\ FAILED
    /\ lastHandler = "predict"
    /\ response.status = 503

\* C7: with the model READY, a POST /predict with a file field, a filename and
\* decodable image bytes is answered with 200, grade the argmax of the model's
\* probability vector and in 0..4, description KL_GRADE_MAP[grade], and
\* probabilities the whole vector.
C7_ValidRequestIsGraded ==
    (READY /\ PastValidation /\ Decodable(lastReq.content) /\ invoked
           /\ ~lastOut.raises)
        => /\ response.status = 200
           /\ response.grade = np_argmax(lastOut.probs).val
           /\ response.grade \in 0..(NumGrades - 1)
           /\ response.description = KL_GRADE_MAP[response.grade]
           /\ response.probabilities = lastOut.probs

\* the predict call of this step raised while decoding or in inference
RaisedInTry ==
    /\ lastHandler' = "predict"
    /\ served' = served + 1
    /\ MODEL # "None"
    /\ lastReq'.hasFile
    /\ lastReq'.filename # ""
    /\ (~Decodable(lastReq'.content) \/ (invoked' /\ lastOut'.raises))

\* C8: an exception while decoding, resizing or running inference is answered
\* with 500 and the generic message; the process keeps serving, and MODEL and
\* everything else a later request depends on are left as they were.
C8_ExceptionIsContained ==
    [][RaisedInTry
          => /\ response' = [status |-> 500, error |-> GenericError]
             /\ pc' = "serving"
             /\ MODEL' = MODEL
             /\ startupFailed' = startupFailed
             /\ UNCHANGED disk]_vars

C8_Witness ==
    /\ pc = "serving"
    /\ MODEL = "loaded"
    /\ PastValidation
    /\ invoked
    /\ lastOut.raises
    /\ response.status = 500
    /\ served = 1

\* C9: with the model loaded, a POST /predict whose uploaded file is empty is
\* answered with 400, not with a server error, and no inference is attempted.
C9_EmptyFileIsClientError ==
    (lastHandler = "predict" /\ MODEL = "loaded" /\ lastReq.hasFile
                             /\ lastReq.content = "empty")
        => (response.status = 400 /\ ~invoked)

\* C10: the load sequence runs once per process, MODEL is published at most
\* once and only as a fully loaded object, the process ends READY with MODEL
\* loaded or FAILED, and once it serves no request changes the load state or
\* reassigns MODEL.
C10_LoadLifecycle ==
    [][/\ loadRuns' <= 1
       /\ publishes' <= 1
       /\ MODEL' \in {"None", "loaded"}
       /\ READY' => MODEL' = "loaded"
       /\ (pc = "serving" /\ pc' = "serving")
             => /\ MODEL' = MODEL
                /\ startupFailed' = startupFailed
                /\ loadRuns' = loadRuns
                /\ publishes' = publishes]_vars

====
